---------------------------- MODULE Spec2Model ----------------------------
(***************************************************************************)
(* Model of category.py: the category graph index of ja-wiki-category.      *)
(*                                                                         *)
(* The raw maps categorypages / categorygraph are the inputs.  One build   *)
(* (update_categorygraph or update_categorygraph_without_scc) runs         *)
(* decompose_scc, the edge loop and the propagation of                     *)
(* _update_categorygraph with topological_sort_dfs in between.  The two    *)
(* queries on the raw maps run before a build (a build does not touch the  *)
(* raw maps), the indexed query on the maps a build returned.  Every       *)
(* iteration over a Python set or dict is a nondeterministic choice of the *)
(* next element; recursion is a stack of call frames.                      *)
(***************************************************************************)
EXTENDS Integers, Sequences, FiniteSets, TLC

\* ---------------------------------------------------------------- bounds
\* category names
MaxNodes == 4
\* edges of categorygraph
MaxEdges == 4
\* the build without SCC is explored on graphs of at most this many edges
MaxEdgesWithoutScc == 3
\* keys of categorygraph whose set is empty
MaxEmptyKeys == 1
\* categories without an entry in categorypages
MaxPageless == 1

Names == 1..MaxNodes
\* a category name that occurs in neither input map
Unknown == MaxNodes + 1
\* Node.index / Node.lowlink before a node is reached (None)
None == -1

VARIABLES
    categorypages,          \* raw map: category -> set of page titles
    categorygraph,          \* raw map: category -> set of sub categories
    mode,                   \* "scc": update_categorygraph, "noscc": ..._without_scc
    run,                    \* 1 or 2: which build of the same input maps this is
    firstResult,            \* closure pages per name of the first build
    pc,                     \* position of the driver
    i, sccL, sccS, sccV,    \* decompose_scc: i, L, S, V
    sccStack,               \* decompose_scc: the active strong_connect calls
    category2indices,
    updated_categorygraph, inversed_categorygraph,
    edgeTodo,               \* _update_categorygraph: keys the first loop has not done
    topoL, topoV,           \* topological_sort_dfs: L, V
    topoStack,              \* topological_sort_dfs: the active visit calls
    sorted_list, propPos,   \* _update_categorygraph: sorted_list and the walk over it
    updated_categorypages,
    category,               \* argument of the running query
    dfsV, dfsStack,         \* show_category_alllinks_with_dfs: V and the active visits
    categories, pages,      \* show_category_alllinks_with_dfs: accumulators
    expanded, calls,        \* how often each category was expanded; visit calls made
    out                     \* what the last query printed

vars == <<categorypages, categorygraph, mode, run, firstResult, pc,
          i, sccL, sccS, sccV, sccStack, category2indices,
          updated_categorygraph, inversed_categorygraph, edgeTodo,
          topoL, topoV, topoStack, sorted_list, propPos,
          updated_categorypages, category, dfsV, dfsStack, categories, pages,
          expanded, calls, out>>

inputVars == <<categorypages, categorygraph, mode>>
sccVars   == <<i, sccL, sccS, sccV, sccStack>>
topoVars  == <<topoL, topoV, topoStack>>
graphVars == <<updated_categorygraph, inversed_categorygraph>>
dfsVars   == <<category, dfsV, dfsStack, categories, pages, expanded, calls>>

\* ------------------------------------------------------- dicts and sets
Empty == <<>>

Min(a, b) == IF a < b THEN a ELSE b

\* d[k] of a defaultdict(set), as a value
Get(d, k) == IF k \in DOMAIN d THEN d[k] ELSE {}

\* d[k] = v (the key is created when absent)
Put(d, k, v) == [x \in DOMAIN d \cup {k} |-> IF x = k THEN v ELSE d[x]]

\* the keys a read d[k] of a defaultdict(set) leaves behind
Touch(d, k) == Put(d, k, Get(d, k))

\* nodes: every key and every value of a graph (lines 105-108, 168-171, 230-233)
Nodes(g) == DOMAIN g \cup UNION {g[k] : k \in DOMAIN g}

\* the neighbours iterated for v: "if v in categorygraph: for w in categorygraph[v]"
Children(g, v) == IF v \in DOMAIN g THEN g[v] ELSE {}

EdgeCount(g) == Cardinality({e \in (DOMAIN g) \X Names : e[2] \in g[e[1]]})

\* ---------------------------------------------------------------- inputs
\* the subsets of S of at most k elements
RECURSIVE SubsetsUpTo(_, _)
SubsetsUpTo(S, k) ==
    IF k = 0 THEN {{}}
    ELSE {r \cup x : r \in SubsetsUpTo(S, k - 1), x \in {{}} \cup {{y} : y \in S}}

\* the map with the edges E and the keys Z of empty sets
GraphOf(E, Z) == [k \in {e[1] : e \in E} \cup Z |-> {e[2] : e \in {d \in E : d[1] = k}}]

\* the edge sets and, for each, the sets of keys of empty sets: every map of at
\* most MaxEdges edges and at most MaxEmptyKeys keys of empty sets; an edge C -> C
\* is allowed
EdgeSets == SubsetsUpTo(Names \X Names, MaxEdges)
EmptyKeySets(E) == SubsetsUpTo(Names \ {e[1] : e \in E}, MaxEmptyKeys)

\* every category has one page of its own, titled as itself, but the categories
\* 1..MaxPageless, which have no entry in categorypages
PageMaps == {[c \in Names \ (1..MaxPageless) |-> {c}]}

Modes == {"scc", "noscc"}

Top(s) == s[Len(s)]
Pop(s) == SubSeq(s, 1, Len(s) - 1)
SetTop(s, f) == [s EXCEPT ![Len(s)] = f]

\* a call frame: the node of the call and the neighbours its loop has not reached
Frame(v, todo) == [v |-> v, todo |-> todo]

\* Node() of decompose_scc (lines 126-130)
SccNode == [index |-> None, lowlink |-> None, onStack |-> FALSE]

\* Node() of topological_sort_dfs (lines 82-85)
TopoNode == [temporary |-> FALSE, permanent |-> FALSE]

NoResult == Empty

\* what a query prints (lines 269-271, 305-306, 331-332)
Printed(q, c, cats, pgs) ==
    [query |-> q, category |-> c, categories |-> cats, pages |-> pgs]

NoOutput == Printed("none", Unknown, {}, {})

Init ==
    /\ \E E \in EdgeSets : \E Z \in EmptyKeySets(E) : categorygraph = GraphOf(E, Z)
    /\ categorypages \in PageMaps
    /\ mode = "none"
    /\ run = 1
    /\ firstResult = NoResult
    /\ pc = "idle"
    /\ i = 0 /\ sccL = <<>> /\ sccS = <<>> /\ sccStack = <<>>
    /\ sccV = [v \in Names |-> SccNode]
    /\ category2indices = Empty
    /\ updated_categorygraph = Empty /\ inversed_categorygraph = Empty
    /\ edgeTodo = {}
    /\ topoL = <<>> /\ topoV = Empty /\ topoStack = <<>>
    /\ sorted_list = <<>> /\ propPos = 0
    /\ updated_categorypages = Empty
    /\ category = Unknown
    /\ dfsV = {} /\ dfsStack = <<>> /\ categories = {} /\ pages = {}
    /\ expanded = [v \in Names \cup {Unknown} |-> 0] /\ calls = 0
    /\ out = NoOutput

\* ---------------------------------------------------------- decompose_scc
\* lines 143-147: the node gets the next index and goes on the stack S
Discovered(k) == [index |-> k, lowlink |-> k, onStack |-> TRUE]

\* line 153 left out: the caller keeps its own lowlink
LowlinkAfterCallForgotten(lowV, lowW) == lowV

\* line 153: after the recursive call on w
LowlinkAfterCall(lowV, lowW) == Min(lowV, lowW)

\* lines 154-155 without the onStack test
LowlinkSeenAnyway(nodeV, nodeW) == Min(nodeV.lowlink, nodeW.index)

\* lines 154-155 left out
LowlinkSeenForgotten(nodeV, nodeW) == nodeV.lowlink

\* lines 154-155: w was reached before; it counts only while it is on S
LowlinkSeen(nodeV, nodeW) ==
    IF nodeW.onStack THEN Min(nodeV.lowlink, nodeW.index) ELSE nodeV.lowlink

\* line 157
IsComponentRoot(node) == node.lowlink = node.index

\* lines 159-165: the position in S down to which S is popped
PopFrom(S, v) == CHOOSE p \in 1..Len(S) : S[p] = v /\ \A q \in (p + 1)..Len(S) : S[q] # v

\* lines 143-147 and the start of the loop of line 150
StrongConnectEnter(v) ==
    /\ sccV' = [sccV EXCEPT ![v] = Discovered(i)]
    /\ i' = i + 1
    /\ sccS' = Append(sccS, v)

\* line 355 (or a caller of update_categorygraph_without_scc): a build of the
\* index starts on the raw maps
Update(m) ==
    /\ pc = "idle"
    /\ m = "noscc" => EdgeCount(categorygraph) <= MaxEdgesWithoutScc
    /\ mode' = m
    /\ pc' = "update"
    /\ out' = NoOutput
    /\ UNCHANGED <<categorypages, categorygraph, run, firstResult, sccVars,
                   category2indices, graphVars, edgeTodo, topoVars, sorted_list,
                   propPos, updated_categorypages, dfsVars>>

\* line 253 (line 173-175): decompose_scc starts; "for v in nodes" reaches a node
\* that has no index yet (a node that has one is skipped without effect)
SccStart ==
    /\ pc \in {"update", "scc"}
    /\ mode = "scc"
    /\ sccStack = <<>>
    /\ \E v \in Nodes(categorygraph) :
          /\ sccV[v].index = None
          /\ StrongConnectEnter(v)
          /\ sccStack' = <<Frame(v, Children(categorygraph, v))>>
    /\ pc' = "scc"
    /\ UNCHANGED <<inputVars, run, firstResult, sccL, category2indices, graphVars,
                   edgeTodo, topoVars, sorted_list, propPos, updated_categorypages,
                   dfsVars, out>>

\* lines 150-152: the loop reaches a neighbour w without index: strong_connect(w)
SccCall ==
    /\ pc = "scc" /\ sccStack # <<>>
    /\ LET f == Top(sccStack) IN
       \E w \in f.todo :
          /\ sccV[w].index = None
          /\ StrongConnectEnter(w)
          /\ sccStack' = Append(SetTop(sccStack, Frame(f.v, f.todo \ {w})),
                                Frame(w, Children(categorygraph, w)))
    /\ UNCHANGED <<inputVars, run, firstResult, pc, sccL, category2indices, graphVars,
                   edgeTodo, topoVars, sorted_list, propPos, updated_categorypages,
                   dfsVars, out>>

\* lines 154-155: the loop reaches a neighbour w that has an index
SccSeen ==
    /\ pc = "scc" /\ sccStack # <<>>
    /\ LET f == Top(sccStack) IN
       \E w \in f.todo :
          /\ sccV[w].index # None
          /\ sccV' = [sccV EXCEPT ![f.v].lowlink = LowlinkSeen(sccV[f.v], sccV[w])]
          /\ sccStack' = SetTop(sccStack, Frame(f.v, f.todo \ {w}))
    /\ UNCHANGED <<inputVars, run, firstResult, pc, i, sccL, sccS, category2indices,
                   graphVars, edgeTodo, topoVars, sorted_list, propPos,
                   updated_categorypages, dfsVars, out>>

\* lines 157-166, then line 153 in the caller: the loop of v is over; a root pops
\* its component off S; the caller takes the lowlink of v
SccReturn ==
    /\ pc = "scc" /\ sccStack # <<>>
    /\ LET f == Top(sccStack)
           v == f.v
           root == IsComponentRoot(sccV[v])
           p == PopFrom(sccS, v)
           new_c == {sccS[q] : q \in p..Len(sccS)}
           V1 == IF root
                 THEN [x \in Names |-> IF x \in new_c
                                       THEN [sccV[x] EXCEPT !.onStack = FALSE]
                                       ELSE sccV[x]]
                 ELSE sccV
           rest == Pop(sccStack)
       IN  /\ f.todo = {}
           /\ sccS' = IF root THEN SubSeq(sccS, 1, p - 1) ELSE sccS
           /\ sccL' = IF root THEN Append(sccL, new_c) ELSE sccL
           /\ sccStack' = rest
           /\ sccV' = IF rest = <<>> THEN V1
                      ELSE [V1 EXCEPT ![Top(rest).v].lowlink =
                               LowlinkAfterCall(V1[Top(rest).v].lowlink, V1[v].lowlink)]
    /\ UNCHANGED <<inputVars, run, firstResult, pc, i, category2indices, graphVars,
                   edgeTodo, topoVars, sorted_list, propPos, updated_categorypages,
                   dfsVars, out>>


\* line 254: {c: i for i, scc in enumerate(scc_list) for c in scc}
ComponentIndices(scc_list) ==
    [c \in UNION {scc_list[p] : p \in 1..Len(scc_list)} |->
        (CHOOSE p \in 1..Len(scc_list) :
            c \in scc_list[p] /\ \A q \in (p + 1)..Len(scc_list) : c \notin scc_list[q]) - 1]

\* lines 173-177 and 254: no node is left without index; decompose_scc returns L
\* and update_categorygraph numbers the components
SccFinish ==
    /\ pc \in {"update", "scc"}
    /\ mode = "scc"
    /\ sccStack = <<>>
    /\ \A v \in Nodes(categorygraph) : sccV[v].index # None
    /\ category2indices' = ComponentIndices(sccL)
    /\ edgeTodo' = DOMAIN categorygraph
    /\ i' = 0 /\ sccV' = [v \in Names |-> SccNode]
    /\ pc' = "edges"
    /\ UNCHANGED <<inputVars, run, firstResult, sccL, sccS, sccStack, graphVars, topoVars,
                   sorted_list, propPos, updated_categorypages, dfsVars, out>>

\* lines 230-235: enumerate(list(categories)) numbers the categories in the order
\* the set happens to be listed
Enumerations(S) ==
    {f \in [S -> 0..(Cardinality(S) - 1)] : \A a, b \in S : a # b => f[a] # f[b]}

WithoutSccStart ==
    /\ pc = "update"
    /\ mode = "noscc"
    /\ category2indices' \in Enumerations(Nodes(categorygraph))
    /\ edgeTodo' = DOMAIN categorygraph
    /\ pc' = "edges"
    /\ UNCHANGED <<inputVars, run, firstResult, sccVars, graphVars, topoVars,
                   sorted_list, propPos, updated_categorypages, dfsVars, out>>

\* ------------------------------------------- _update_categorygraph, part 1
\* line 197 for every v of categorygraph[c]
AddEdges(U, c) ==
    LET ic == category2indices[c]
        add == {category2indices[v] : v \in categorygraph[c]}
    IN  IF add = {} THEN U ELSE Put(U, ic, Get(U, ic) \cup add)

\* line 198 for every v of categorygraph[c]
AddInverse(I, c) ==
    LET ic == category2indices[c]
        tos == {category2indices[v] : v \in categorygraph[c]}
    IN  [x \in DOMAIN I \cup tos |-> IF x \in tos THEN Get(I, x) \cup {ic} ELSE I[x]]

\* lines 200, 201 with nothing taken away
RemoveSelfLoopForgotten(d, ic) == Touch(d, ic)

\* lines 200, 201: d[ic] -= set([ic])
RemoveSelfLoop(d, ic) == Put(d, ic, Get(d, ic) \ {ic})

\* lines 195-201: one round of "for c in categorygraph"
EdgeStep ==
    /\ pc = "edges"
    /\ \E c \in edgeTodo :
          /\ updated_categorygraph' =
                RemoveSelfLoop(AddEdges(updated_categorygraph, c), category2indices[c])
          /\ inversed_categorygraph' =
                RemoveSelfLoop(AddInverse(inversed_categorygraph, c), category2indices[c])
          /\ edgeTodo' = edgeTodo \ {c}
    /\ UNCHANGED <<inputVars, run, firstResult, pc, sccVars, category2indices, topoVars,
                   sorted_list, propPos, updated_categorypages, dfsVars, out>>

\* --------------------------------------------------- topological_sort_dfs
TopoGet(v) == IF v \in DOMAIN topoV THEN topoV[v] ELSE TopoNode

\* lines 93-94 returning instead of raising
VisitOutcomeSilent(node) ==
    IF node.permanent \/ node.temporary THEN "return" ELSE "descend"

\* lines 91-96: what visit does with a node
VisitOutcome(node) ==
    IF node.permanent THEN "return"
    ELSE IF node.temporary THEN "raise"
    ELSE "descend"

\* line 103 as L.append(v)
InsertBack(L, v) == Append(L, v)

\* line 103
InsertFront(L, v) == <<v>> \o L

\* lines 110-112 with 91-97: nodes.pop() gives a node that is not permanent (for a
\* permanent one visit returns at once) and visit marks it temporary
TopoStart ==
    /\ pc \in {"edges", "topo"}
    /\ edgeTodo = {}
    /\ topoStack = <<>>
    /\ \E v \in Nodes(updated_categorygraph) :
          /\ VisitOutcome(TopoGet(v)) = "descend"
          /\ topoV' = Put(topoV, v, [temporary |-> TRUE, permanent |-> FALSE])
          /\ topoStack' = <<Frame(v, Children(updated_categorygraph, v))>>
    /\ pc' = "topo"
    /\ UNCHANGED <<inputVars, run, firstResult, sccVars, category2indices, graphVars,
                   edgeTodo, topoL, sorted_list, propPos, updated_categorypages,
                   dfsVars, out>>

\* lines 98-99 with 91-97: visit(m) on a node that is neither permanent nor temporary
TopoCall ==
    /\ pc = "topo" /\ topoStack # <<>>
    /\ LET f == Top(topoStack) IN
       \E m \in f.todo :
          /\ VisitOutcome(TopoGet(m)) = "descend"
          /\ topoV' = Put(topoV, m, [temporary |-> TRUE, permanent |-> FALSE])
          /\ topoStack' = Append(SetTop(topoStack, Frame(f.v, f.todo \ {m})),
                                 Frame(m, Children(updated_categorygraph, m)))
    /\ UNCHANGED <<inputVars, run, firstResult, pc, sccVars, category2indices, graphVars,
                   edgeTodo, topoL, sorted_list, propPos, updated_categorypages,
                   dfsVars, out>>

\* lines 91-92: visit(m) on a permanent node returns
TopoSkip ==
    /\ pc = "topo" /\ topoStack # <<>>
    /\ LET f == Top(topoStack) IN
       \E m \in f.todo :
          /\ VisitOutcome(TopoGet(m)) = "return"
          /\ topoStack' = SetTop(topoStack, Frame(f.v, f.todo \ {m}))
    /\ UNCHANGED <<inputVars, run, firstResult, pc, sccVars, category2indices, graphVars,
                   edgeTodo, topoL, topoV, sorted_list, propPos, updated_categorypages,
                   dfsVars, out>>

\* lines 93-94: visit(m) on a temporary node raises; the exception leaves
\* _update_categorygraph and the update function: nothing is returned
TopoRaise ==
    /\ pc = "topo" /\ topoStack # <<>>
    /\ LET f == Top(topoStack) IN
       \E m \in f.todo : VisitOutcome(TopoGet(m)) = "raise"
    /\ pc' = "error"
    /\ topoL' = <<>> /\ topoV' = Empty /\ topoStack' = <<>>
    /\ updated_categorygraph' = Empty /\ inversed_categorygraph' = Empty
    /\ category2indices' = Empty
    /\ UNCHANGED <<inputVars, run, firstResult, sccVars, edgeTodo, sorted_list, propPos,
                   updated_categorypages, dfsVars, out>>

\* lines 101-103: the loop of v is over
TopoFinish ==
    /\ pc = "topo" /\ topoStack # <<>>
    /\ LET f == Top(topoStack) IN
          /\ f.todo = {}
          /\ topoV' = Put(topoV, f.v, [temporary |-> FALSE, permanent |-> TRUE])
          /\ topoL' = InsertFront(topoL, f.v)
          /\ topoStack' = Pop(topoStack)
    /\ UNCHANGED <<inputVars, run, firstResult, pc, sccVars, category2indices, graphVars,
                   edgeTodo, sorted_list, propPos, updated_categorypages, dfsVars, out>>

\* lines 110, 114 and 202: nodes is empty; sorted_list = L
TopoReturn ==
    /\ pc \in {"edges", "topo"}
    /\ edgeTodo = {}
    /\ topoStack = <<>>
    /\ \A v \in Nodes(updated_categorygraph) : VisitOutcome(TopoGet(v)) = "return"
    /\ sorted_list' = topoL
    /\ propPos' = 1
    /\ topoL' = <<>> /\ topoV' = Empty
    /\ pc' = "propagate"
    /\ UNCHANGED <<inputVars, run, firstResult, sccVars, category2indices, graphVars,
                   edgeTodo, topoStack, updated_categorypages, dfsVars, out>>


\* ------------------------------------------- _update_categorygraph, part 2
Reversed(L) == [p \in 1..Len(L) |-> L[Len(L) + 1 - p]]

\* line 204 without reversed()
WalkOrderForward(L) == L

\* line 204: the order in which the nodes are walked
WalkOrder(L) == Reversed(L)

\* lines 205-207 with the loop of line 206 left after its first round
PropagateOneParent(U, n) ==
    IF n \in DOMAIN inversed_categorygraph /\ inversed_categorygraph[n] # {}
    THEN LET U1 == Touch(U, n)
             v == CHOOSE x \in inversed_categorygraph[n] : TRUE
         IN  Put(U1, v, Get(U1, v) \cup U1[n])
    ELSE U

\* lines 205-207 for one n
Propagate(U, n) ==
    IF n \in DOMAIN inversed_categorygraph /\ inversed_categorygraph[n] # {}
    THEN LET U1 == Touch(U, n)
             P == inversed_categorygraph[n]
         IN  [x \in DOMAIN U1 \cup P |-> IF x \in P THEN Get(U1, x) \cup U1[n] ELSE U1[x]]
    ELSE U

\* lines 204-207: one round of "for n in reversed(sorted_list)"
PropagateStep ==
    /\ pc = "propagate"
    /\ propPos <= Len(sorted_list)
    /\ updated_categorygraph' =
          Propagate(updated_categorygraph, WalkOrder(sorted_list)[propPos])
    /\ propPos' = propPos + 1
    /\ UNCHANGED <<inputVars, run, firstResult, pc, sccVars, category2indices,
                   inversed_categorygraph, edgeTodo, topoVars, sorted_list,
                   updated_categorypages, dfsVars, out>>

\* lines 209-212
IndexPages(cp, c2i) ==
    LET has == DOMAIN c2i \cap DOMAIN cp
    IN  [x \in {c2i[node] : node \in has} |->
            UNION {cp[node] : node \in {m \in has : c2i[m] = x}}]

\* lines 209-214 and 238 / 257: the index maps are returned; the locals of the
\* update functions are gone
BuildPages ==
    /\ pc = "propagate"
    /\ propPos > Len(sorted_list)
    /\ updated_categorypages' = IndexPages(categorypages, category2indices)
    /\ pc' = "done"
    /\ sccL' = <<>> /\ sccS' = <<>>
    /\ inversed_categorygraph' = Empty
    /\ sorted_list' = <<>> /\ propPos' = 0
    /\ UNCHANGED <<inputVars, run, firstResult, i, sccV, sccStack, category2indices,
                   updated_categorygraph, edgeTodo, topoVars, dfsVars, out>>

\* ----------------------------------------------------------------- queries
\* lines 268-271 (an empty set stands for a line that is not printed)
ShowCategoryDirectlinks ==
    /\ pc = "idle"
    /\ \E c \in Names \cup {Unknown} :
          out' = Printed("directlinks", c,
                         IF c \in DOMAIN categorygraph THEN categorygraph[c] ELSE {},
                         IF c \in DOMAIN categorypages THEN categorypages[c] ELSE {})
    /\ UNCHANGED <<inputVars, run, firstResult, pc, sccVars, category2indices, graphVars,
                   edgeTodo, topoVars, sorted_list, propPos, updated_categorypages,
                   dfsVars>>

\* lines 297-298
VisitPages(pgs, v) == IF v \in DOMAIN categorypages THEN pgs \cup categorypages[v] ELSE pgs

\* lines 299-300
VisitCategories(cats, v) ==
    IF v \in DOMAIN categorygraph THEN cats \cup categorygraph[v] ELSE cats

\* lines 294-295 left out
VisitedNever(V, v) == FALSE

\* lines 294-295
Visited(V, v) == v \in V

\* lines 296-301: visit(v) on a category not visited before
DfsExpand(v) ==
    /\ dfsV' = dfsV \cup {v}
    /\ pages' = VisitPages(pages, v)
    /\ categories' = VisitCategories(categories, v)
    /\ expanded' = [expanded EXCEPT ![v] = @ + 1]
    /\ calls' = calls + 1

\* lines 286-288 and 304: the query starts with visit(category); it has printed
\* nothing yet
DfsStart ==
    /\ pc = "idle"
    /\ \E c \in Names \cup {Unknown} :
          /\ category' = c
          /\ dfsV' = {c}
          /\ pages' = VisitPages({}, c)
          /\ categories' = VisitCategories({}, c)
          /\ expanded' = [v \in Names \cup {Unknown} |-> IF v = c THEN 1 ELSE 0]
          /\ calls' = 1
          /\ dfsStack' = <<Frame(c, Children(categorygraph, c))>>
    /\ pc' = "dfs"
    /\ out' = NoOutput
    /\ UNCHANGED <<inputVars, run, firstResult, sccVars, category2indices, graphVars,
                   edgeTodo, topoVars, sorted_list, propPos, updated_categorypages>>

\* lines 301-302 with 294-300: visit(m) on a category that is not visited
DfsCall ==
    /\ pc = "dfs" /\ dfsStack # <<>>
    /\ LET f == Top(dfsStack) IN
       \E m \in f.todo :
          /\ ~Visited(dfsV, m)
          /\ DfsExpand(m)
          /\ dfsStack' = Append(SetTop(dfsStack, Frame(f.v, f.todo \ {m})),
                                Frame(m, Children(categorygraph, m)))
    /\ UNCHANGED <<inputVars, run, firstResult, pc, sccVars, category2indices, graphVars,
                   edgeTodo, topoVars, sorted_list, propPos, updated_categorypages,
                   category, out>>

\* lines 294-295: visit(m) on a visited category returns
DfsSkip ==
    /\ pc = "dfs" /\ dfsStack # <<>>
    /\ LET f == Top(dfsStack) IN
       \E m \in f.todo :
          /\ Visited(dfsV, m)
          /\ dfsStack' = SetTop(dfsStack, Frame(f.v, f.todo \ {m}))
    /\ calls' = calls + 1
    /\ UNCHANGED <<inputVars, run, firstResult, pc, sccVars, category2indices, graphVars,
                   edgeTodo, topoVars, sorted_list, propPos, updated_categorypages,
                   category, dfsV, categories, pages, expanded, out>>

\* the loop of line 301 is over: visit returns
DfsReturn ==
    /\ pc = "dfs" /\ dfsStack # <<>>
    /\ Top(dfsStack).todo = {}
    /\ dfsStack' = Pop(dfsStack)
    /\ UNCHANGED <<inputVars, run, firstResult, pc, sccVars, category2indices, graphVars,
                   edgeTodo, topoVars, sorted_list, propPos, updated_categorypages,
                   category, dfsV, categories, pages, expanded, calls, out>>

\* lines 305-306
DfsPrint ==
    /\ pc = "dfs" /\ dfsStack = <<>>
    /\ out' = Printed("alllinks_with_dfs", category, categories, pages)
    /\ pc' = "idle"
    /\ category' = Unknown
    /\ dfsV' = {} /\ categories' = {} /\ pages' = {}
    /\ expanded' = [v \in Names \cup {Unknown} |-> 0] /\ calls' = 0
    /\ UNCHANGED <<inputVars, run, firstResult, sccVars, category2indices, graphVars,
                   edgeTodo, topoVars, sorted_list, propPos, updated_categorypages,
                   dfsStack>>

\* lines 318-320
Index2Categories(c2i, x) == {c \in DOMAIN c2i : c2i[c] = x}

\* lines 323-330: the pages the indexed query unites for a known category
AllLinksPages(cp, cg, c2i, c) ==
    Get(cp, c2i[c]) \cup UNION {Get(cp, sub_c) : sub_c \in Get(cg, c2i[c])}

\* lines 326-329: the category names the indexed query reports
AllLinksCategories(cg, c2i, c) ==
    UNION {Index2Categories(c2i, sub_c) : sub_c \in Get(cg, c2i[c])}

\* lines 325 and 328: every categorypages[...] the query evaluates
PagesRead(cp, cg, index) ==
    LET reads == {index} \cup Get(cg, index)
    IN  [x \in DOMAIN cp \cup reads |-> Get(cp, x)]

\* lines 318-332, on the maps a build returned (nothing is printed for a category
\* that is not in category2indices: empty sets stand for that)
ShowCategoryAlllinks ==
    /\ pc = "done"
    /\ \E c \in Names \cup {Unknown} :
          IF c \in DOMAIN category2indices
          THEN /\ out' = Printed("alllinks", c,
                            AllLinksCategories(updated_categorygraph, category2indices, c),
                            AllLinksPages(updated_categorypages, updated_categorygraph,
                                          category2indices, c))
               /\ updated_categorypages' =
                     PagesRead(updated_categorypages, updated_categorygraph,
                               category2indices[c])
               /\ updated_categorygraph' =
                     Touch(updated_categorygraph, category2indices[c])
          ELSE /\ out' = Printed("alllinks", c, {}, {})
               /\ UNCHANGED <<updated_categorypages, updated_categorygraph>>
    /\ UNCHANGED <<inputVars, run, firstResult, pc, sccVars, category2indices,
                   inversed_categorygraph, edgeTodo, topoVars, sorted_list, propPos,
                   dfsVars>>

\* the closure pages of every category name, as the indexed query derives them
ClosureByName ==
    [c \in DOMAIN category2indices |->
        AllLinksPages(updated_categorypages, updated_categorygraph, category2indices, c)]

\* the driver calls update_categorygraph a second time on the same raw maps
Rerun ==
    /\ pc = "done"
    /\ mode = "scc"
    /\ run = 1
    /\ run' = 2
    /\ firstResult' = ClosureByName
    /\ pc' = "update"
    /\ i' = 0 /\ sccL' = <<>> /\ sccS' = <<>> /\ sccStack' = <<>>
    /\ sccV' = [v \in Names |-> SccNode]
    /\ category2indices' = Empty
    /\ updated_categorygraph' = Empty /\ inversed_categorygraph' = Empty
    /\ sorted_list' = <<>> /\ propPos' = 0
    /\ updated_categorypages' = Empty
    /\ out' = NoOutput
    /\ UNCHANGED <<inputVars, edgeTodo, topoVars, dfsVars>>

Next ==
    \/ \E m \in Modes : Update(m)
    \/ SccStart \/ SccCall \/ SccSeen \/ SccReturn \/ SccFinish
    \/ WithoutSccStart
    \/ EdgeStep
    \/ TopoStart \/ TopoCall \/ TopoSkip \/ TopoRaise \/ TopoFinish \/ TopoReturn
    \/ PropagateStep \/ BuildPages
    \/ ShowCategoryDirectlinks
    \/ DfsStart \/ DfsCall \/ DfsSkip \/ DfsReturn \/ DfsPrint
    \/ ShowCategoryAlllinks

Spec == Init /\ [][Next]_vars

\* update_categorygraph called twice on the same raw maps
TwiceNext ==
    \/ Update("scc")
    \/ SccStart \/ SccCall \/ SccSeen \/ SccReturn \/ SccFinish
    \/ EdgeStep
    \/ TopoStart \/ TopoCall \/ TopoSkip \/ TopoFinish \/ TopoReturn
    \/ PropagateStep \/ BuildPages
    \/ Rerun

TwiceSpec == Init /\ [][TwiceNext]_vars

\* the raw maps queried without a build: the queries of lines 260-306
QueryNext ==
    \/ ShowCategoryDirectlinks
    \/ DfsStart \/ DfsCall \/ DfsSkip \/ DfsReturn \/ DfsPrint

\* a query that has started runs on: the program is sequential
QuerySpec ==
    Init /\ [][QueryNext]_vars /\ WF_vars(DfsCall \/ DfsSkip \/ DfsReturn \/ DfsPrint)

\* ------------------------------------------------------ reference notions
RECURSIVE ReachFrom(_, _)
ReachFrom(g, S) ==
    LET T == S \cup UNION {Children(g, x) : x \in S}
    IN  IF T = S THEN S ELSE ReachFrom(g, T)

\* the nodes reachable from c through zero or more edges of g
Reachable(g, c) == ReachFrom(g, {c})

\* the direct pages of every category reachable from c in the input relation
ReachablePages(c) ==
    UNION {Get(categorypages, x) : x \in Reachable(categorygraph, c)}

\* a cycle through two or more distinct nodes
ProperCycle(g) ==
    \E a \in Nodes(g) : \E b \in Children(g, a) \ {a} : a \in Reachable(g, b)

\* no cycle at all, self loops included
Acyclic(g) == \A a \in Nodes(g) : \A b \in Children(g, a) : a \notin Reachable(g, b)

MutuallyReachable(g, a, b) == b \in Reachable(g, a) /\ a \in Reachable(g, b)

Position(L, x) == CHOOSE p \in 1..Len(L) : L[p] = x

EachNodeOnce(L, g) ==
    /\ Len(L) = Cardinality(Nodes(g))
    /\ \A x \in Nodes(g) : \E p \in 1..Len(L) : L[p] = x

\* topological_sort_dfs has just returned sorted_list for updated_categorygraph
TopoReturned == pc = "propagate" /\ propPos = 1

\* decompose_scc has returned its list
SccReturned == mode = "scc" /\ pc \in {"edges", "topo", "propagate"}

\* ------------------------------------------------------------------ claims

\* C1: after a build, the pages the indexed query derives for a category c of
\* category2indices are exactly the direct pages of the categories reachable from c
\* through zero or more subcategory edges of the input relation.
C1_ClosureIsReachablePages ==
    pc = "done" =>
        \A c \in DOMAIN category2indices :
            AllLinksPages(updated_categorypages, updated_categorygraph,
                          category2indices, c) = ReachablePages(c)

\* a build without SCC is done on a chain of four categories
C1_Witness ==
    /\ pc = "done" /\ mode = "noscc"
    /\ \E c \in DOMAIN category2indices :
          /\ Cardinality(Reachable(categorygraph, c)) = 4
          /\ Cardinality(Children(categorygraph, c)) = 1
          /\ Cardinality(ReachablePages(c)) >= 3

\* C2 as stated: the list topological_sort_dfs returns holds every node once and
\* every child before its parent.
C2_ChildBeforeParent ==
    TopoReturned =>
        /\ EachNodeOnce(sorted_list, updated_categorygraph)
        /\ \A parent \in DOMAIN updated_categorygraph :
              \A child \in updated_categorygraph[parent] :
                 Position(sorted_list, child) < Position(sorted_list, parent)

\* C2 amended: the list topological_sort_dfs returns holds every node once and
\* every parent before its children.
C2_ParentBeforeChild ==
    TopoReturned =>
        /\ EachNodeOnce(sorted_list, updated_categorygraph)
        /\ \A parent \in DOMAIN updated_categorygraph :
              \A child \in updated_categorygraph[parent] :
                 Position(sorted_list, parent) < Position(sorted_list, child)

\* the sort returned on a graph in which a node has two parents, one of them the
\* parent of the other
C2_Witness ==
    /\ TopoReturned
    /\ \E a, b, c \in Nodes(updated_categorygraph) :
          /\ b \in Children(updated_categorygraph, a)
          /\ c \in Children(updated_categorygraph, a)
          /\ c \in Children(updated_categorygraph, b)

\* C3: the components decompose_scc returns are non-empty, pairwise disjoint and
\* cover exactly the keys and values of the relation, and S is empty at the return.
C3_ComponentsPartition ==
    SccReturned =>
        /\ \A p \in 1..Len(sccL) : sccL[p] # {}
        /\ \A p, q \in 1..Len(sccL) : p # q => sccL[p] \cap sccL[q] = {}
        /\ UNION {sccL[p] : p \in 1..Len(sccL)} = Nodes(categorygraph)
        /\ sccS = <<>>

\* decompose_scc returned a component of several categories and another component
C3_Witness ==
    /\ SccReturned
    /\ Len(sccL) >= 2
    /\ \E p \in 1..Len(sccL) : Cardinality(sccL[p]) >= 2

\* C4: a build with SCC never raises the cycle error, and the index graph handed
\* to topological_sort_dfs is acyclic.
C4_SccBuildNeverRaises ==
    mode = "scc" =>
        /\ pc # "error"
        /\ (pc \in {"edges", "topo"} /\ edgeTodo = {}) => Acyclic(updated_categorygraph)

\* the sort returned in a build with SCC on two cycles that share a category
C4_Witness ==
    /\ mode = "scc" /\ TopoReturned
    /\ \E a, b, c \in Names :
          /\ a # b /\ b # c /\ a # c
          /\ b \in Children(categorygraph, a) /\ a \in Children(categorygraph, b)
          /\ c \in Children(categorygraph, b) /\ b \in Children(categorygraph, c)

\* C5: a build without SCC raises, and returns nothing, only on an input with a
\* cycle through two or more categories, and gets past the sort only on an input
\* without one, whatever the iteration orders.
C5_WithoutSccRaisesIffCycle ==
    mode = "noscc" =>
        /\ pc = "error" =>
              /\ ProperCycle(categorygraph)
              /\ updated_categorygraph = Empty
              /\ updated_categorypages = Empty
              /\ category2indices = Empty
        /\ pc \in {"propagate", "done"} => ~ProperCycle(categorygraph)

\* the build without SCC raised
C5_Witness == mode = "noscc" /\ pc = "error" /\ ProperCycle(categorygraph)

\* C6: in a build with SCC two categories get the same index exactly when each is
\* reachable from the other.
C6_SameIndexIffMutuallyReachable ==
    (mode = "scc" /\ pc \in {"edges", "topo", "propagate", "done"}) =>
        /\ DOMAIN category2indices = Nodes(categorygraph)
        /\ \A a, b \in Nodes(categorygraph) :
              (category2indices[a] = category2indices[b])
                 <=> MutuallyReachable(categorygraph, a, b)

\* two categories share an index and a third one, linked to them, has another
C6_Witness ==
    /\ mode = "scc" /\ pc = "done"
    /\ \E a, b, c \in DOMAIN category2indices :
          /\ a # b
          /\ category2indices[a] = category2indices[b]
          /\ category2indices[c] # category2indices[a]
          /\ c \in Children(categorygraph, a) \cup Children(categorygraph, b)

\* C7: the second build of the same input maps gives every category name the
\* closure page set the first build gave it.
C7_SecondBuildSameClosure ==
    (run = 2 /\ pc = "done") => ClosureByName = firstResult

\* the second build is done and some closure holds pages of other categories
C7_Witness ==
    /\ run = 2 /\ pc = "done"
    /\ \E c \in DOMAIN firstResult : Cardinality(firstResult[c]) >= 2
    /\ Cardinality({category2indices[c] : c \in DOMAIN category2indices}) >= 3

\* C8: no index is its own child in the index graph or in its inverse, before and
\* after propagation.
C8_NoSelfReference ==
    pc \in {"edges", "topo", "propagate", "done"} =>
        /\ \A x \in DOMAIN updated_categorygraph : x \notin updated_categorygraph[x]
        /\ \A x \in DOMAIN inversed_categorygraph : x \notin inversed_categorygraph[x]

\* a build with SCC is done on an input with an edge C -> C and an edge between
\* two members of one component
C8_Witness ==
    /\ pc = "done" /\ mode = "scc"
    /\ \E c \in DOMAIN categorygraph : c \in categorygraph[c]
    /\ \E a, b \in DOMAIN category2indices :
          /\ a # b
          /\ category2indices[a] = category2indices[b]
          /\ b \in Children(categorygraph, a)

\* a step of one of the three queries
QueryStep == pc \in {"idle", "dfs", "done"} /\ pc' \in {"idle", "dfs", "done"}

\* C9: no query step changes the key set or a value of the page map, the graph map
\* or category2indices it is given.
C9_QueriesReadOnly ==
    [][QueryStep => UNCHANGED <<categorypages, categorygraph, category2indices,
                                updated_categorypages, updated_categorygraph>>]_vars

\* every call of visit but the first one goes along an edge out of an expanded node
DfsCallBound ==
    1 + Cardinality({e \in dfsV \X Names : e[2] \in Children(categorygraph, e[1])})

DfsBounded ==
    pc = "dfs" =>
        /\ \A v \in Names \cup {Unknown} : expanded[v] <= 1
        /\ calls <= DfsCallBound

DfsResult ==
    out.query = "alllinks_with_dfs" =>
        /\ out.pages = ReachablePages(out.category)
        /\ out.categories =
              UNION {Children(categorygraph, x) : x \in Reachable(categorygraph, out.category)}
        /\ out.category \notin (DOMAIN categorygraph \cup DOMAIN categorypages) =>
              (out.pages = {} /\ out.categories = {})

\* C10: show_category_alllinks_with_dfs expands every category at most once and
\* makes at most one call per edge, ends on every graph, reports exactly the direct
\* pages of the categories reachable from the start, and reports empty sets for a
\* category in neither map.
C10_DfsTerminatesWithReachablePages ==
    /\ []DfsBounded
    /\ []DfsResult
    /\ (pc = "dfs") ~> (pc = "idle")

\* the query has ended for a start category that lies on a cycle
C10_Witness ==
    /\ out.query = "alllinks_with_dfs"
    /\ \E b \in Children(categorygraph, out.category) \ {out.category} :
          out.category \in Reachable(categorygraph, b)
    /\ out.pages # {}

=============================================================================
